---- MODULE Spec2Model ----
(***************************************************************************)
(* png2wasm4src: conversion of indexed PNG sprites to packed WASM-4        *)
(* bitmaps (src/sprite.rs) and the sprite module tree built from a         *)
(* directory (src/lookup.rs).                                              *)
(*                                                                         *)
(* Three specifications share the variables of this module:                *)
(*   Spec      one call of convert_png_to_rust_variables, the pixel loop   *)
(*             of encode_image taken one iteration per step;               *)
(*   TreeSpec  a directory is laid out, build_sprite_modules_tree scans    *)
(*             it, the Module operations act on the result, and the        *)
(*             ParsedModule is written out as text;                        *)
(*   SanSpec   sanitize_variable_name is applied to a string, and to its   *)
(*             own result.                                                 *)
(***************************************************************************)
EXTENDS Integers, Sequences, FiniteSets, TLC

VARIABLES
    \* ---- sprite conversion (src/sprite.rs)
    sprite_name,    \* the name passed in: sequence of code points
    png_palette,    \* PLTE chunk of the input: sequence of <<r, g, b>>
    width,          \* image.width()
    height,         \* image.height()
    png_pixels,     \* indexed pixel data: palette entry (1-based) per pixel, row-major
    mapping,        \* HashMap<u32, usize> built by compute_palette_mapping
    bits,           \* bit depth selected by the match on palette.len(): 0 (none), 1 or 2
    bytes,          \* the Vec<u8> encode_image is filling
    pos,            \* number of pixels encode_image has processed
    looked,         \* palette index looked up for each processed pixel
    pc,             \* "start", "encoding", "done", "panic"
    result,         \* Result<RustVariables, PngToWasm4SrcError> of the call
    \* ---- module tree (src/lookup.rs)
    fs,             \* the directory tree: set of entries [path, kind]
    phase,          \* "fs", "module", "off"
    module,         \* the current Module value
    source,         \* the Module the last operation was applied to
    lastop,         \* name of the last operation applied
    output,         \* text written by generate_cargo_build_instructions (lines)
    conv,           \* per sprite path: what reading and converting the file yields
    parsed,         \* outcome of Module::parse
    rendered,       \* text of the ParsedModule as Display writes it (lines)
    \* ---- name sanitization (src/sanitization.rs)
    san_input,      \* the string passed in: sequence of code points
    san_output,     \* sanitize_variable_name(san_input)
    san_again,      \* sanitize_variable_name(san_output)
    san_pc          \* "off", "input", "once", "twice"

convVars == <<sprite_name, png_palette, width, height, png_pixels, mapping, bits, bytes, pos,
              looked, pc, result>>
treeVars == <<fs, phase, module, source, lastop, output, conv, parsed, rendered>>
sanVars == <<san_input, san_output, san_again, san_pc>>
vars == <<sprite_name, png_palette, width, height, png_pixels, mapping, bits, bytes, pos,
          looked, pc, result, fs, phase, module, source, lastop, output, conv, parsed,
          rendered, san_input, san_output, san_again, san_pc>>

----------------------------------------------------------------------------
(* Bounds of the model *)

\* Largest number of entries of the PLTE chunk.
MaxPalette == 4
\* Largest image width and height.
MaxWidth == 3
MaxHeight == 3
\* The indexed pixels repeat a pattern of this length along the row-major order.
PatLen == 2
\* Largest number of entries (files and directories) below the scanned directory.
MaxEntries == 4
\* Largest number of path components below the scanned directory.
MaxDepth == 3
\* Largest length of a string passed to sanitize_variable_name.
MaxName == 4

----------------------------------------------------------------------------
(* Small helpers *)

Max(a, b) == IF a >= b THEN a ELSE b

Pow2(n) == 2 ^ n

CeilDiv(a, b) == (a + b - 1) \div b

Range(s) == {s[i] : i \in DOMAIN s}

\* Bitwise operators on bytes, by bit position.
Bit(v, k) == (v \div Pow2(k)) % 2

BitAnd(a, b) ==
    LET term(k) == Bit(a, k) * Bit(b, k) * Pow2(k)
    IN term(0) + term(1) + term(2) + term(3) + term(4) + term(5) + term(6) + term(7)

BitOr(a, b) ==
    LET term(k) == Max(Bit(a, k), Bit(b, k)) * Pow2(k)
    IN term(0) + term(1) + term(2) + term(3) + term(4) + term(5) + term(6) + term(7)

\* !mask on a u8
BitNot(a) == 255 - a

\* v << s on a u8: the bits shifted out are lost
Shl8(v, s) == (v * Pow2(s)) % 256

----------------------------------------------------------------------------
(* src/sprite.rs *)

\* The colours a PLTE entry may take.  Red is kept below 128 so that the
\* 32-bit colour key stays within the integers TLC computes with.
Colours == << <<0, 0, 0>>, <<127, 255, 255>>, <<127, 0, 0>>, <<0, 0, 255>> >>

quadruple_to_value(r, g, b, a) == r * Pow2(24) + g * Pow2(16) + b * Pow2(8)

\* extract_palette: one colour key per PLTE entry, alpha forced to 0
extract_palette(plte) ==
    [i \in 1..Len(plte) |-> quadruple_to_value(plte[i][1], plte[i][2], plte[i][3], 0)]

\* compute_palette_mapping: (value, index) pairs collected into a HashMap, a
\* later pair replacing an earlier one with the same key.  Indices are 0-based.
RECURSIVE InsertAll(_, _, _)
InsertAll(map, pal, i) ==
    IF i > Len(pal) THEN map
    ELSE InsertAll([k \in (DOMAIN map) \cup {pal[i]} |->
                        IF k = pal[i] THEN i - 1 ELSE map[k]], pal, i + 1)

compute_palette_mapping(pal) == InsertAll(<<>>, pal, 1)

MapLen(map) == Cardinality(DOMAIN map)

\* read_image(...).into_rgba8(): the pixel at linear position n, as <<r,g,b,a>>;
\* an opaque indexed pixel decodes to its PLTE entry with alpha 255.
PixelAt(n) ==
    LET c == png_palette[png_pixels[n + 1]]
    IN <<c[1], c[2], c[3], 255>>

color_to_value(color) == quadruple_to_value(color[1], color[2], color[3], color[4])

\* A row-padded 1bpp layout: every row starts on a byte boundary.
Encoder1bppRowPadded(x, y) ==
    LET idx   == y * CeilDiv(width, 8) + (x \div 8)
        shift == 7 - ((x % 256) % 8)
    IN [idx |-> idx, shift |-> shift, mask |-> Shl8(1, shift)]

\* The closure of encode_1bpp_image: (idx, shift, mask) of pixel (x, y)
Encoder1bpp(x, y) ==
    LET idx   == (y * width + x) \div 8
        shift == 7 - ((x % 256) % 8)
    IN [idx |-> idx, shift |-> shift, mask |-> Shl8(1, shift)]

\* The closure of encode_2bpp_image
Encoder2bpp(x, y) ==
    LET idx   == (y * width + x) \div 4
        shift == 6 - (((x % 256) % 4) * 2)
    IN [idx |-> idx, shift |-> shift, mask |-> Shl8(3, shift)]

Encoder(b, x, y) == IF b = 1 THEN Encoder1bpp(x, y) ELSE Encoder2bpp(x, y)

\* if bytes.len() <= idx { bytes.push(0); }
PushIfShort(bs, idx) == IF Len(bs) <= idx THEN Append(bs, 0) ELSE bs

\* bytes[idx] = ((*index as u8) << shift) | (bytes[idx] & (!mask));
WritePixel(bs, e, index) ==
    [bs EXCEPT ![e.idx + 1] =
        BitOr(Shl8(index % 256, e.shift), BitAnd(bs[e.idx + 1], BitNot(e.mask)))]

NoResult == [kind |-> "none", err |-> "none", n |-> 0, name |-> <<>>,
             width |-> 0, height |-> 0, flags |-> "none", data |-> <<>>]

ErrResult(e, n) == [NoResult EXCEPT !.kind = "err", !.err = e, !.n = n]

\* RustVariables::new as convert_png_to_rust_variables calls it
OkResult(nm, w, h, f, d) ==
    [NoResult EXCEPT !.kind = "ok", !.name = nm, !.width = w, !.height = h,
                     !.flags = f, !.data = d]

\* The two arms of the match exchanged: the flags of the other bit depth.
FlagsSwapped(b) == IF b = 1 THEN "TwoBitsPerPixel" ELSE "OneBitPerPixel"

\* The flags paired with the encoder in the arms of the match on palette.len()
FlagsOf(b) == IF b = 1 THEN "OneBitPerPixel" ELSE "TwoBitsPerPixel"

\* Names a caller passes in: "a" and "B-"
SpriteNames == { <<97>>, <<66, 45>> }

\* Flags::value
FlagsValue(f) == IF f = "OneBitPerPixel" THEN 0 ELSE 1

\* PLTE chunks up to a renaming of the colours: entry i is one of the colours
\* used before it or the next unused one.
IsCanonical(p) ==
    /\ p[1] = 1
    /\ \A i \in 2..Len(p) : \E j \in 1..(i - 1) : p[i] <= p[j] + 1

PaletteChoices ==
    UNION { {p \in [1..n -> 1..Len(Colours)] : IsCanonical(p)} : n \in 1..MaxPalette }

SanOff ==
    /\ san_input = <<>>
    /\ san_output = <<>>
    /\ san_again = <<>>
    /\ san_pc = "off"

TreeOff ==
    /\ fs = {}
    /\ phase = "off"
    /\ module = <<>>
    /\ source = <<>>
    /\ lastop = "none"
    /\ output = <<>>
    /\ conv = <<>>
    /\ parsed = [ok |-> FALSE, err |-> "none", log |-> <<>>, value |-> <<>>]
    /\ rendered = <<>>

Init ==
    /\ sprite_name \in SpriteNames
    /\ \E p \in PaletteChoices : png_palette = [i \in 1..Len(p) |-> Colours[p[i]]]
    /\ width \in 1..MaxWidth
    /\ height \in 1..MaxHeight
    /\ \E pat \in [0..(PatLen - 1) -> 1..Len(png_palette)] :
           png_pixels = [n \in 1..(width * height) |-> pat[(n - 1) % PatLen]]
    /\ mapping = <<>>
    /\ bits = 0
    /\ bytes = <<>>
    /\ pos = 0
    /\ looked = <<>>
    /\ pc = "start"
    /\ result = NoResult
    /\ TreeOff
    /\ SanOff

\* convert_png_to_rust_variables up to the match on palette.len(): an
\* unsupported size returns the error, a supported one enters encode_image.
Convert ==
    /\ pc = "start"
    /\ LET map == compute_palette_mapping(extract_palette(png_palette))
           n   == MapLen(map)
       IN /\ mapping' = map
          /\ IF n = 2 THEN bits' = 1 /\ pc' = "encoding" /\ result' = result
             ELSE IF n = 4 THEN bits' = 2 /\ pc' = "encoding" /\ result' = result
             ELSE /\ bits' = 0
                  /\ pc' = "done"
                  /\ result' = ErrResult("InvalidPaletteSize", n)
    /\ UNCHANGED <<sprite_name, png_palette, width, height, png_pixels, bytes, pos, looked>>
    /\ UNCHANGED <<treeVars, sanVars>>

\* One iteration of the loop of encode_image, over enumerate_pixels (row-major).
\* The expect on the lookup and the indexing of bytes panic when they fail.
EncodePixel ==
    /\ pc = "encoding"
    /\ pos < width * height
    /\ LET x     == pos % width
           y     == pos \div width
           value == color_to_value(PixelAt(pos))
       IN IF value \notin DOMAIN mapping
          THEN pc' = "panic" /\ UNCHANGED <<bytes, pos, looked>>
          ELSE LET index == mapping[value]
                   e     == Encoder(bits, x, y)
                   grown == PushIfShort(bytes, e.idx)
               IN IF e.idx >= Len(grown)
                  THEN pc' = "panic" /\ bytes' = grown /\ UNCHANGED <<pos, looked>>
                  ELSE /\ bytes' = WritePixel(grown, e, index)
                       /\ pos' = pos + 1
                       /\ looked' = Append(looked, index)
                       /\ pc' = pc
    /\ UNCHANGED <<sprite_name, png_palette, width, height, png_pixels, mapping, bits, result>>
    /\ UNCHANGED <<treeVars, sanVars>>

\* encode_image returns and convert_png_to_rust_variables builds the record.
Finish ==
    /\ pc = "encoding"
    /\ pos = width * height
    /\ pc' = "done"
    /\ result' = OkResult(sprite_name, width, height, FlagsOf(bits), bytes)
    /\ UNCHANGED <<sprite_name, png_palette, width, height, png_pixels, mapping, bits, bytes,
                   pos, looked>>
    /\ UNCHANGED <<treeVars, sanVars>>

Next == Convert \/ EncodePixel \/ Finish

Spec == Init /\ [][Next]_vars

----------------------------------------------------------------------------
(* src/lookup.rs: paths and the directory tree *)

\* The file names of the model, in the byte order of their text:
\* "a" < "b.PNG" < "b.png" < "c.png".  A name is the index of its row.
\* The stem is given by its rank in the same order ("a" < "b" < "c").
Names == << [stem |-> 1, ext |-> ""],
            [stem |-> 2, ext |-> "PNG"],
            [stem |-> 2, ext |-> "png"],
            [stem |-> 3, ext |-> "png"] >>

NameIds == 1..Len(Names)

\* The scanned directory ("sprites"); its name sorts before every other name.
RootPath == <<0>>

\* Path::file_name, Path::parent, Path::join, Path::extension
file_name(p) == p[Len(p)]
parent(p) == SubSeq(p, 1, Len(p) - 1)
join(p, n) == Append(p, n)

\* The extension with its letters in lower case
ExtensionIgnoringCase(p) ==
    IF Names[file_name(p)].ext = "PNG" THEN "png" ELSE Names[file_name(p)].ext

extension(p) == Names[file_name(p)].ext

Exists(p) == \E e \in fs : e.path = p
is_file(p) == \E e \in fs : e.path = p /\ e.kind = "file"
is_dir(p) == p = RootPath \/ \E e \in fs : e.path = p /\ e.kind = "dir"

\* Ord of Path: component by component, a proper prefix first. -1, 0 or 1.
RECURSIVE CmpPathFrom(_, _, _)
CmpPathFrom(p, q, i) ==
    IF i > Len(p) /\ i > Len(q) THEN 0
    ELSE IF i > Len(p) THEN -1
    ELSE IF i > Len(q) THEN 1
    ELSE IF p[i] < q[i] THEN -1
    ELSE IF p[i] > q[i] THEN 1
    ELSE CmpPathFrom(p, q, i + 1)

CmpPath(p, q) == CmpPathFrom(p, q, 1)

\* Ord of BTreeSet<PathBuf>: lexicographic over the elements in order
RECURSIVE CmpPathsFrom(_, _, _)
CmpPathsFrom(s, t, i) ==
    IF i > Len(s) /\ i > Len(t) THEN 0
    ELSE IF i > Len(s) THEN -1
    ELSE IF i > Len(t) THEN 1
    ELSE IF CmpPath(s[i], t[i]) # 0 THEN CmpPath(s[i], t[i])
    ELSE CmpPathsFrom(s, t, i + 1)

\* derive(Ord) of Module: name, then sprite_paths, then submodules
RECURSIVE CmpModule(_, _)
RECURSIVE CmpModulesFrom(_, _, _)
CmpModule(a, b) ==
    IF a.name < b.name THEN -1
    ELSE IF a.name > b.name THEN 1
    ELSE IF CmpPathsFrom(a.sprite_paths, b.sprite_paths, 1) # 0
         THEN CmpPathsFrom(a.sprite_paths, b.sprite_paths, 1)
    ELSE CmpModulesFrom(a.submodules, b.submodules, 1)

CmpModulesFrom(s, t, i) ==
    IF i > Len(s) /\ i > Len(t) THEN 0
    ELSE IF i > Len(s) THEN -1
    ELSE IF i > Len(t) THEN 1
    ELSE IF CmpModule(s[i], t[i]) # 0 THEN CmpModule(s[i], t[i])
    ELSE CmpModulesFrom(s, t, i + 1)

\* An insertion that keeps the order of arrival: a new path goes to the end
InsertPathAtEnd(set, p) ==
    IF \E i \in 1..Len(set) : CmpPath(set[i], p) = 0 THEN set ELSE Append(set, p)

\* BTreeSet<PathBuf>::insert on the set kept as an ascending sequence
InsertPath(set, p) ==
    IF \E i \in 1..Len(set) : CmpPath(set[i], p) = 0 THEN set
    ELSE LET k == Cardinality({i \in 1..Len(set) : CmpPath(set[i], p) < 0})
         IN SubSeq(set, 1, k) \o <<p>> \o SubSeq(set, k + 1, Len(set))

\* BTreeSet<Module>::insert
InsertModule(set, m) ==
    IF \E i \in 1..Len(set) : CmpModule(set[i], m) = 0 THEN set
    ELSE LET k == Cardinality({i \in 1..Len(set) : CmpModule(set[i], m) < 0})
         IN SubSeq(set, 1, k) \o <<m>> \o SubSeq(set, k + 1, Len(set))

\* iterator.collect::<BTreeSet<PathBuf>>(), BTreeSet::append
RECURSIVE ExtendPaths(_, _, _)
ExtendPaths(set, items, i) ==
    IF i > Len(items) THEN set
    ELSE ExtendPaths(InsertPath(set, items[i]), items, i + 1)

CollectPaths(items) == ExtendPaths(<<>>, items, 1)

\* iterator.collect::<BTreeSet<Module>>()
RECURSIVE ExtendModules(_, _, _)
ExtendModules(set, items, i) ==
    IF i > Len(items) THEN set
    ELSE ExtendModules(InsertModule(set, items[i]), items, i + 1)

CollectModules(items) == ExtendModules(<<>>, items, 1)

\* Module::new with both collections kept in the order they were given
ModuleNewUnsorted(name, sprite_paths, submodules) ==
    [name |-> name, sprite_paths |-> sprite_paths, submodules |-> submodules]

\* Module::new
ModuleNew(name, sprite_paths, submodules) ==
    [name |-> name,
     sprite_paths |-> CollectPaths(sprite_paths),
     submodules |-> CollectModules(submodules)]

\* The orders in which read_dir may list the entries of a directory: one
\* permutation of the names, followed in every directory.
Orders == {o \in [NameIds -> NameIds] : \A i, j \in NameIds : o[i] = o[j] => i = j}

SortedOrder == [i \in NameIds |-> i]

\* A listing order back to front
Reversed(order) == [i \in NameIds |-> order[Len(Names) + 1 - i]]

\* read_dir(dir) mapped to entry.path(), collected into a Vec
read_dir(dir, order) ==
    LET present(n) == Exists(join(dir, n))
        names == SelectSeq(order, present)
    IN [i \in 1..Len(names) |-> join(dir, names[i])]

\* build_sprite_modules_tree without the filter on empty submodules
RECURSIVE BuildKeepEmpty(_, _, _)
BuildKeepEmpty(dir, orderFiles, orderDirs) ==
    LET isSprite(p) == is_file(p) /\ extension(p) = "png"
        files == SelectSeq(read_dir(dir, orderFiles), isSprite)
        dirs  == SelectSeq(read_dir(dir, orderDirs), is_dir)
        built == [i \in 1..Len(dirs) |-> BuildKeepEmpty(dirs[i], orderFiles, orderDirs)]
    IN ModuleNew(file_name(dir), files, built)

\* build_sprite_modules_tree on a directory (the is_dir branch)
RECURSIVE build_sprite_modules_tree(_, _, _)
build_sprite_modules_tree(dir, orderFiles, orderDirs) ==
    LET isSprite(p) == is_file(p) /\ extension(p) = "png"
        hasSprites(m) == m.sprite_paths # <<>>
        files == SelectSeq(read_dir(dir, orderFiles), isSprite)
        dirs  == SelectSeq(read_dir(dir, orderDirs), is_dir)
        built == [i \in 1..Len(dirs) |->
                     build_sprite_modules_tree(dirs[i], orderFiles, orderDirs)]
        submodules == SelectSeq(built, hasSprites)
    IN ModuleNew(file_name(dir), files, submodules)

\* A Module written out by hand with Module::new, as the unit tests do: one
\* module per directory, every file of the directory a sprite path.
RECURSIVE HandBuilt(_)
HandBuilt(dir) ==
    LET files == SelectSeq(read_dir(dir, SortedOrder), is_file)
        dirs  == SelectSeq(read_dir(dir, SortedOrder), is_dir)
    IN ModuleNew(file_name(dir), files, [i \in 1..Len(dirs) |-> HandBuilt(dirs[i])])

----------------------------------------------------------------------------
(* src/lookup.rs: the operations of Module *)

RECURSIVE flatten(_)
RECURSIVE FlattenInto(_, _, _)

\* The loop of flatten: each submodule is flattened and its paths appended
FlattenInto(paths, subs, i) ==
    IF i > Len(subs) THEN paths
    ELSE FlattenInto(ExtendPaths(paths, flatten(subs[i]).sprite_paths, 1), subs, i + 1)

\* flatten starting from an empty set instead of the module's own paths
FlattenDropOwn(m) ==
    [name |-> m.name,
     sprite_paths |-> FlattenInto(<<>>, m.submodules, 1),
     submodules |-> <<>>]

\* flatten that hoists the direct submodules only and keeps what is below them
RECURSIVE HoistInto(_, _, _)
HoistInto(acc, subs, i) ==
    IF i > Len(subs) THEN acc
    ELSE HoistInto([sprite_paths |-> ExtendPaths(acc.sprite_paths, subs[i].sprite_paths, 1),
                    submodules |-> ExtendModules(acc.submodules, subs[i].submodules, 1)],
                   subs, i + 1)

FlattenOneLevel(m) ==
    LET h == HoistInto([sprite_paths |-> m.sprite_paths, submodules |-> <<>>],
                       m.submodules, 1)
    IN [name |-> m.name, sprite_paths |-> h.sprite_paths, submodules |-> h.submodules]

\* Module::flatten
flatten(m) ==
    [name |-> m.name,
     sprite_paths |-> FlattenInto(m.sprite_paths, m.submodules, 1),
     submodules |-> <<>>]

\* writeln!(output, "cargo:rerun-if-changed={}", path.display())
HintLine(p) == <<"cargo:rerun-if-changed=", p>>

HintLines(paths) == [i \in 1..Len(paths) |-> HintLine(paths[i])]

RECURSIVE generate_cargo_build_instructions(_, _)
RECURSIVE GenerateSubmodules(_, _, _)

\* The second loop of generate_cargo_build_instructions
GenerateSubmodules(subs, i, out) ==
    IF i > Len(subs) THEN out
    ELSE GenerateSubmodules(subs, i + 1, generate_cargo_build_instructions(subs[i], out))

\* generate_cargo_build_instructions descending into the submodules first
GenerateSubmodulesFirst(m, out) ==
    GenerateSubmodules(m.submodules, 1, out) \o HintLines(m.sprite_paths)

\* Module::generate_cargo_build_instructions: the text appended to `out`
generate_cargo_build_instructions(m, out) ==
    GenerateSubmodules(m.submodules, 1, out \o HintLines(m.sprite_paths))

\* What convert_png_to_rust_variables makes of the contents a sprite file may
\* have: a 2x1 image at 1bpp and a 1x1 image at 2bpp
Images == << [width |-> 2, height |-> 1, flags |-> "OneBitPerPixel", data |-> <<64>>],
             [width |-> 1, height |-> 1, flags |-> "TwoBitsPerPixel", data |-> <<192>>] >>

\* What reading and converting one sprite file may yield: an error, or the
\* record of one of the images
Outcomes == { [ok |-> TRUE, err |-> "none", image |-> i] : i \in 1..Len(Images) }
            \cup { [ok |-> FALSE, err |-> "IoError", image |-> 0],
                   [ok |-> FALSE, err |-> "NotIndexedPng", image |-> 0] }

\* The RustVariables of the sprite at path p holding image i: the name is the
\* file stem
Variables(p, i) ==
    [name |-> Names[file_name(p)].stem, width |-> Images[i].width,
     height |-> Images[i].height, flags |-> Images[i].flags, data |-> Images[i].data]

\* Ord of Vec<u8>: lexicographic
RECURSIVE CmpBytes(_, _, _)
CmpBytes(s, t, i) ==
    IF i > Len(s) /\ i > Len(t) THEN 0
    ELSE IF i > Len(s) THEN -1
    ELSE IF i > Len(t) THEN 1
    ELSE IF s[i] < t[i] THEN -1
    ELSE IF s[i] > t[i] THEN 1
    ELSE CmpBytes(s, t, i + 1)

\* derive(Ord) of Flags: the variants in the order of their declaration
FlagsOrd(f) == IF f = "OneBitPerPixel" THEN 1 ELSE 2

\* derive(Ord) of RustVariables: name, width, height, flags, data
CmpVariables(a, b) ==
    IF a.name # b.name THEN (IF a.name < b.name THEN -1 ELSE 1)
    ELSE IF a.width # b.width THEN (IF a.width < b.width THEN -1 ELSE 1)
    ELSE IF a.height # b.height THEN (IF a.height < b.height THEN -1 ELSE 1)
    ELSE IF a.flags # b.flags THEN (IF FlagsOrd(a.flags) < FlagsOrd(b.flags) THEN -1 ELSE 1)
    ELSE CmpBytes(a.data, b.data, 1)

RECURSIVE CmpVariablesFrom(_, _, _)
CmpVariablesFrom(s, t, i) ==
    IF i > Len(s) /\ i > Len(t) THEN 0
    ELSE IF i > Len(s) THEN -1
    ELSE IF i > Len(t) THEN 1
    ELSE IF CmpVariables(s[i], t[i]) # 0 THEN CmpVariables(s[i], t[i])
    ELSE CmpVariablesFrom(s, t, i + 1)

\* derive(Ord) of ParsedModule: name, then variables, then submodules
RECURSIVE CmpParsed(_, _)
RECURSIVE CmpParsedFrom(_, _, _)
CmpParsed(a, b) ==
    IF a.name < b.name THEN -1
    ELSE IF a.name > b.name THEN 1
    ELSE IF CmpVariablesFrom(a.variables, b.variables, 1) # 0
         THEN CmpVariablesFrom(a.variables, b.variables, 1)
    ELSE CmpParsedFrom(a.submodules, b.submodules, 1)

CmpParsedFrom(s, t, i) ==
    IF i > Len(s) /\ i > Len(t) THEN 0
    ELSE IF i > Len(s) THEN -1
    ELSE IF i > Len(t) THEN 1
    ELSE IF CmpParsed(s[i], t[i]) # 0 THEN CmpParsed(s[i], t[i])
    ELSE CmpParsedFrom(s, t, i + 1)

\* BTreeSet<RustVariables>::insert
InsertVariables(set, v) ==
    IF \E i \in 1..Len(set) : CmpVariables(set[i], v) = 0 THEN set
    ELSE LET k == Cardinality({i \in 1..Len(set) : CmpVariables(set[i], v) < 0})
         IN SubSeq(set, 1, k) \o <<v>> \o SubSeq(set, k + 1, Len(set))

\* BTreeSet<ParsedModule>::insert
InsertParsed(set, m) ==
    IF \E i \in 1..Len(set) : CmpParsed(set[i], m) = 0 THEN set
    ELSE LET k == Cardinality({i \in 1..Len(set) : CmpParsed(set[i], m) < 0})
         IN SubSeq(set, 1, k) \o <<m>> \o SubSeq(set, k + 1, Len(set))

\* ParsedModule::new; both arguments arrive as BTreeSets and are collected again
ParsedModuleNew(name, variables, submodules) ==
    [name |-> name, variables |-> variables, submodules |-> submodules]

NoParse == [ok |-> FALSE, err |-> "none", log |-> <<>>, value |-> <<>>]

ParseErr(e, log) == [ok |-> FALSE, err |-> e, log |-> log, value |-> <<>>]

ParseOk(v, log) == [ok |-> TRUE, err |-> "none", log |-> log, value |-> v]

\* The first collect of parse done eagerly: every path is read and converted,
\* then the first error is reported
RECURSIVE ParsePathsEager(_, _, _, _, _)
ParsePathsEager(c, paths, i, acc, log) ==
    IF i > Len(paths)
    THEN IF \E k \in 1..Len(paths) : ~c[paths[k]].ok
         THEN LET f == CHOOSE k \in 1..Len(paths) :
                           /\ ~c[paths[k]].ok
                           /\ \A j \in 1..(k - 1) : c[paths[j]].ok
              IN ParseErr(c[paths[f]].err, log)
         ELSE ParseOk(acc, log)
    ELSE ParsePathsEager(c, paths, i + 1,
                         IF c[paths[i]].ok
                         THEN InsertVariables(acc, Variables(paths[i], c[paths[i]].image))
                         ELSE acc,
                         Append(log, paths[i]))

\* The first collect of parse (lines 50-63): the paths are read and converted
\* in order and the first Err ends the iteration.  log records the paths read.
RECURSIVE ParsePaths(_, _, _, _, _)
ParsePaths(c, paths, i, acc, log) ==
    IF i > Len(paths) THEN ParseOk(acc, log)
    ELSE IF ~c[paths[i]].ok THEN ParseErr(c[paths[i]].err, Append(log, paths[i]))
    ELSE ParsePaths(c, paths, i + 1,
                    InsertVariables(acc, Variables(paths[i], c[paths[i]].image)),
                    Append(log, paths[i]))

RECURSIVE parse(_, _, _)
RECURSIVE ParseSubmodules(_, _, _, _, _)

\* The second collect of parse (lines 65-69)
ParseSubmodules(c, subs, i, acc, log) ==
    IF i > Len(subs) THEN ParseOk(acc, log)
    ELSE LET r == parse(subs[i], c, log)
         IN IF ~r.ok THEN r
            ELSE ParseSubmodules(c, subs, i + 1, InsertParsed(acc, r.value), r.log)

\* Module::parse, given what each file converts to and the paths read so far
parse(m, c, log) ==
    LET v == ParsePaths(c, m.sprite_paths, 1, <<>>, log)
    IN IF ~v.ok THEN v
       ELSE LET s == ParseSubmodules(c, m.submodules, 1, <<>>, v.log)
            IN IF ~s.ok THEN s
               ELSE ParseOk(ParsedModuleNew(m.name, v.value, s.value), s.log)

\* Every module of a tree, the root included
RECURSIVE Nodes(_)
Nodes(m) == {m} \cup UNION {Nodes(m.submodules[i]) : i \in 1..Len(m.submodules)}

\* Every sprite path of a tree
AllPaths(m) == UNION {Range(n.sprite_paths) : n \in Nodes(m)}

----------------------------------------------------------------------------
(* The directory is laid out, scanned, and the result operated on *)

ConvOff ==
    /\ sprite_name = <<>>
    /\ png_palette = <<>>
    /\ width = 0
    /\ height = 0
    /\ png_pixels = <<>>
    /\ mapping = <<>>
    /\ bits = 0
    /\ bytes = <<>>
    /\ pos = 0
    /\ looked = <<>>
    /\ pc = "off"
    /\ result = NoResult

TreeInit ==
    /\ ConvOff
    /\ SanOff
    /\ fs = {}
    /\ phase = "fs"
    /\ module = <<>>
    /\ source = <<>>
    /\ lastop = "none"
    /\ output = <<>>
    /\ conv = <<>>
    /\ parsed = NoParse
    /\ rendered = <<>>

\* The directories of the tree, the scanned one included
Dirs == {RootPath} \cup {e.path : e \in {d \in fs : d.kind = "dir"}}

\* An entry of the given kind is added to a directory of the tree
Create(kind) ==
    /\ Cardinality(fs) < MaxEntries
    /\ \E d \in Dirs, n \in NameIds :
          /\ Len(d) <= MaxDepth
          /\ ~Exists(join(d, n))
          /\ fs' = fs \cup {[path |-> join(d, n), kind |-> kind]}

\* A file is created in a directory of the tree
Touch ==
    /\ phase = "fs"
    /\ Create("file")
    /\ UNCHANGED <<phase, module, source, lastop, output, conv, parsed, rendered>>
    /\ UNCHANGED <<convVars, sanVars>>

\* A directory is created in a directory of the tree
Mkdir ==
    /\ phase = "fs"
    /\ Create("dir")
    /\ UNCHANGED <<phase, module, source, lastop, output, conv, parsed, rendered>>
    /\ UNCHANGED <<convVars, sanVars>>

\* build_sprite_modules_tree(root); the two read_dir calls list the entries in
\* some order, the second in the order of the first or back to front
Build ==
    /\ phase = "fs"
    /\ \E orderFiles \in Orders : \E orderDirs \in {orderFiles, Reversed(orderFiles)} :
          module' = build_sprite_modules_tree(RootPath, orderFiles, orderDirs)
    /\ phase' = "module"
    /\ lastop' = "build"
    /\ UNCHANGED <<fs, source, output, conv, parsed, rendered>>
    /\ UNCHANGED <<convVars, sanVars>>

\* A Module assembled with Module::new
New ==
    /\ phase = "fs"
    /\ module' = HandBuilt(RootPath)
    /\ phase' = "module"
    /\ lastop' = "new"
    /\ UNCHANGED <<fs, source, output, conv, parsed, rendered>>
    /\ UNCHANGED <<convVars, sanVars>>

\* module = module.flatten()
Flatten ==
    /\ phase = "module"
    /\ source' = module
    /\ module' = flatten(module)
    /\ lastop' = IF lastop \in {"flatten", "flatten2"} THEN "flatten2" ELSE "flatten"
    /\ output' = <<>>
    /\ UNCHANGED <<fs, phase, conv, parsed, rendered>>
    /\ UNCHANGED <<convVars, sanVars>>

\* module.generate_cargo_build_instructions(&mut buffer) on an empty buffer
Generate ==
    /\ phase = "module"
    /\ source' = module
    /\ output' = generate_cargo_build_instructions(module, <<>>)
    /\ lastop' = "generate"
    /\ UNCHANGED <<fs, phase, module, conv, parsed, rendered>>
    /\ UNCHANGED <<convVars, sanVars>>

\* module.parse(): the module is consumed
Parse ==
    /\ phase = "module"
    /\ \E c \in [AllPaths(module) -> Outcomes] :
          /\ conv' = c
          /\ parsed' = parse(module, c, <<>>)
    /\ source' = module
    /\ output' = <<>>
    /\ lastop' = "parse"
    /\ phase' = "parsed"
    /\ UNCHANGED <<fs, module, rendered>>
    /\ UNCHANGED <<convVars, sanVars>>

----------------------------------------------------------------------------
(* src/sanitization.rs *)

\* The characters of the model, as code points:
\* 'a', 'z', 'B', '1', '-', '_', ' ' and the non-ASCII letter U+00F8.
Alphabet == {97, 122, 66, 49, 45, 95, 32, 248}

Hyphen == 45
Underscore == 95

\* char::is_ascii_alphabetic, char::is_ascii_alphanumeric
is_ascii_alphabetic(c) == (65 <= c /\ c <= 90) \/ (97 <= c /\ c <= 122)
is_ascii_digit(c) == 48 <= c /\ c <= 57
is_ascii_alphanumeric(c) == is_ascii_alphabetic(c) \/ is_ascii_digit(c)

\* An upper-casing that flips the case bit of every ASCII letter
ToggleAsciiCase(s) ==
    [i \in 1..Len(s) |->
        IF 97 <= s[i] /\ s[i] <= 122 THEN s[i] - 32
        ELSE IF 65 <= s[i] /\ s[i] <= 90 THEN s[i] + 32
        ELSE s[i]]

\* str::to_ascii_uppercase: a-z become A-Z, everything else stays
to_ascii_uppercase(s) ==
    [i \in 1..Len(s) |-> IF 97 <= s[i] /\ s[i] <= 122 THEN s[i] - 32 ELSE s[i]]

\* str::replace with one-character patterns
replace(s, from, to) == [i \in 1..Len(s) |-> IF s[i] = from THEN to ELSE s[i]]

\* skip_while that stops at an ASCII letter only
SkipToLetter(s) ==
    IF \E i \in 1..Len(s) : is_ascii_alphabetic(s[i])
    THEN LET k == CHOOSE i \in 1..Len(s) :
                      /\ is_ascii_alphabetic(s[i])
                      /\ \A j \in 1..(i - 1) : ~is_ascii_alphabetic(s[j])
         IN SubSeq(s, k, Len(s))
    ELSE <<>>

\* .skip_while(|c| !c.is_ascii_alphabetic() && *c != '_')
RECURSIVE skip_while(_)
skip_while(s) ==
    IF s = <<>> THEN s
    ELSE IF ~is_ascii_alphabetic(Head(s)) /\ Head(s) # Underscore THEN skip_while(Tail(s))
    ELSE s

\* .filter(|c| c.is_ascii_alphanumeric() || *c == '_')
filter(s) ==
    LET keep(c) == is_ascii_alphanumeric(c) \/ c = Underscore
    IN SelectSeq(s, keep)

\* sanitize_variable_name
sanitize_variable_name(name) ==
    filter(skip_while(replace(to_ascii_uppercase(name), Hyphen, Underscore)))

SanInit ==
    /\ ConvOff
    /\ TreeOff
    /\ \E n \in 0..MaxName : san_input \in [1..n -> Alphabet]
    /\ san_output = <<>>
    /\ san_again = <<>>
    /\ san_pc = "input"

\* let name = sanitize_variable_name(&self.name)
Sanitize ==
    /\ san_pc = "input"
    /\ san_output' = sanitize_variable_name(san_input)
    /\ san_pc' = "once"
    /\ UNCHANGED <<san_input, san_again>>
    /\ UNCHANGED <<convVars, treeVars>>

\* The result is sanitized again
SanitizeAgain ==
    /\ san_pc = "once"
    /\ san_again' = sanitize_variable_name(san_output)
    /\ san_pc' = "twice"
    /\ UNCHANGED <<san_input, san_output>>
    /\ UNCHANGED <<convVars, treeVars>>

SanNext == Sanitize \/ SanitizeAgain

SanSpec == SanInit /\ [][SanNext]_vars

----------------------------------------------------------------------------
(* src/rust.rs and src/lookup.rs: the text of a ParsedModule *)

\* The file stems of the model by rank, as code points: "a", "b", "c"
Stems == << <<97>>, <<98>>, <<99>> >>

\* Flags::human_readable_value
human_readable_value(f) == IF f = "OneBitPerPixel" THEN "BLIT_1BPP" ELSE "BLIT_2BPP"

\* {:#04x}: "0x" and the two hexadecimal digits of a byte
HexByte(b) == <<b \div 16, b % 16>>

RECURSIVE HexBytes(_, _)
HexBytes(data, i) ==
    IF i > Len(data) THEN <<>> ELSE HexByte(data[i]) \o HexBytes(data, i + 1)

\* A line of text without a character
EmptyLine == [kind |-> "", name |-> <<>>, value |-> <<>>, comment |-> ""]

\* Display of RustVariables (not alternate), split at the line feeds as
\* rust_code.split('\n') does: four lines and the empty rest after the last
\* line feed.  A line is its template (kind), the sanitized name, the numbers
\* written into it and its trailing comment.
RustVariablesToString(v) ==
    LET name == sanitize_variable_name(Stems[v.name])
    IN << [kind |-> "const {}_WIDTH: u32 = {};", name |-> name,
           value |-> <<v.width>>, comment |-> ""],
          [kind |-> "const {}_HEIGHT: u32 = {};", name |-> name,
           value |-> <<v.height>>, comment |-> ""],
          [kind |-> "const {}_FLAGS: u32 = {}; // {}", name |-> name,
           value |-> <<FlagsValue(v.flags)>>, comment |-> human_readable_value(v.flags)],
          [kind |-> "const {}: [u8; {}] = [{}];", name |-> name,
           value |-> <<Len(v.data)>> \o HexBytes(v.data, 1), comment |-> ""],
          EmptyLine >>

\* writeln!(f): a line feed alone
BlankLine == [indent |-> 0, pub |-> "", line |-> EmptyLine]

\* writeln!(f, "{}pub mod {} {{", mod_prefix, module.name)
OpeningLine(level, name) ==
    [indent |-> 4 * level, pub |-> "",
     line |-> [kind |-> "pub mod {} {", name |-> <<name>>, value |-> <<>>, comment |-> ""]]

\* The first line of writeln!(f, "{}}}\n", mod_prefix)
ClosingLine(level) ==
    [indent |-> 4 * level, pub |-> "",
     line |-> [kind |-> "}", name |-> <<>>, value |-> <<>>, comment |-> ""]]

\* writeln!(f, "{}pub {}", prefix, line)
PubLine(level, line) == [indent |-> 4 * (level + 1), pub |-> "pub ", line |-> line]

\* The inner loop over the lines of one record, and the writeln!(f) after it
WriteVariable(v, level) ==
    LET nonEmpty(l) == l # EmptyLine
        lines == SelectSeq(RustVariablesToString(v), nonEmpty)
    IN [i \in 1..Len(lines) |-> PubLine(level, lines[i])] \o <<BlankLine>>

\* The loop over module.variables
RECURSIVE WriteVariables(_, _, _)
WriteVariables(variables, i, level) ==
    IF i > Len(variables) THEN <<>>
    ELSE WriteVariable(variables[i], level) \o WriteVariables(variables, i + 1, level)

\* The module written with its submodules at its own level
RECURSIVE WriteWithoutNesting(_, _)
WriteWithoutNesting(m, level) ==
    LET subs[i \in 1..(Len(m.submodules) + 1)] ==
            IF i > Len(m.submodules) THEN <<>>
            ELSE WriteWithoutNesting(m.submodules[i], level) \o subs[i + 1]
    IN <<OpeningLine(level, m.name)>> \o WriteVariables(m.variables, 1, level)
       \o subs[1] \o <<ClosingLine(level), BlankLine>>

RECURSIVE write_parsed_module_with_indentation(_, _)
RECURSIVE WriteSubmodules(_, _, _)

\* The loop over module.submodules
WriteSubmodules(submodules, i, level) ==
    IF i > Len(submodules) THEN <<>>
    ELSE write_parsed_module_with_indentation(submodules[i], level + 1)
         \o WriteSubmodules(submodules, i + 1, level)

\* write_parsed_module_with_indentation: the lines written
write_parsed_module_with_indentation(m, level) ==
    <<OpeningLine(level, m.name)>> \o WriteVariables(m.variables, 1, level)
    \o WriteSubmodules(m.submodules, 1, level) \o <<ClosingLine(level), BlankLine>>

\* parsed_module.to_string(): Display of ParsedModule
Display ==
    /\ phase = "parsed"
    /\ lastop = "parse"
    /\ parsed.ok
    /\ rendered' = write_parsed_module_with_indentation(parsed.value, 0)
    /\ lastop' = "display"
    /\ UNCHANGED <<fs, phase, module, source, output, conv, parsed>>
    /\ UNCHANGED <<convVars, sanVars>>

TreeNext == Touch \/ Mkdir \/ Build \/ New \/ Flatten \/ Generate \/ Parse \/ Display

TreeSpec == TreeInit /\ [][TreeNext]_vars

----------------------------------------------------------------------------
(* Claims about the sprite conversion *)

Done == pc = "done"
Encoded == pc = "done" /\ result.kind = "ok"

\* Reading pixel (x, y) back from packed data with the layout of the encoder
\* of bit depth b: (data[idx] & mask) >> shift
ReadBack(data, b, x, y) ==
    LET e == Encoder(b, x, y)
    IN BitAnd(data[e.idx + 1], e.mask) \div Pow2(e.shift)

\* C1: once encode_image has processed all pixels, reading any pixel (x, y)
\* back from the output with the same layout yields the palette index that was
\* looked up for that pixel, whatever the width, height and bit depth.
RoundTripEveryImage ==
    Encoded =>
        \A n \in 0..(width * height - 1) :
            ReadBack(result.data, bits, n % width, n \div width) = looked[n + 1]

\* The round trip of C1 on the palettes without repeated colours only: the
\* pixels of a column share the shift, so it fails whenever two rows meet in
\* one byte (1bpp: width not a multiple of 8; 2bpp: not a multiple of 4).
RoundTripDistinctColours ==
    Len(png_palette) = MapLen(compute_palette_mapping(extract_palette(png_palette)))
        => RoundTripEveryImage

\* C2: encode_1bpp_image returns exactly ceil(w*h/8) bytes, encode_2bpp_image
\* exactly ceil(w*h/4) bytes, and the loop never indexes past the end of its
\* buffer (after each pixel the buffer holds exactly the bytes of the pixels
\* processed so far).
OutputLengthIsCeil ==
    /\ pc # "panic"
    /\ pc = "encoding" => Len(bytes) = CeilDiv(pos * bits, 8)
    /\ Encoded /\ bits = 1 => Len(result.data) = CeilDiv(width * height, 8)
    /\ Encoded /\ bits = 2 => Len(result.data) = CeilDiv(width * height, 4)

\* A 1bpp image of 9 pixels (width 3, not a multiple of 8) encoded to 2 bytes.
OutputLengthWitness ==
    /\ Encoded
    /\ bits = 1
    /\ width = 3
    /\ height = 3
    /\ Len(result.data) = 2

\* C3: on a palette of n entries with n not in {2, 4} the call returns
\* InvalidPaletteSize(n), n being the number of entries (repeated colours
\* included); it returns no sprite record and does not panic.
InvalidPaletteSizeByEntryCount ==
    Len(png_palette) \notin {2, 4} =>
        /\ pc \in {"start", "done"}
        /\ pc = "done" => result = ErrResult("InvalidPaletteSize", Len(png_palette))

----------------------------------------------------------------------------
(* Claims about the module tree *)

IsProperPrefix(p, q) == Len(p) < Len(q) /\ SubSeq(q, 1, Len(p)) = p

\* The .png files of the directory tree
PngFiles == {e.path : e \in {f \in fs : f.kind = "file" /\ extension(f.path) = "png"}}

\* Directory d has a .png file somewhere in its subtree
HasPngBelow(d) == \E f \in PngFiles : IsProperPrefix(d, f)

\* The directories the submodules of m (at any depth) stand for, m standing
\* for directory dir
RECURSIVE SubmoduleDirs(_, _)
SubmoduleDirs(m, dir) ==
    UNION { {join(dir, m.submodules[i].name)}
                \cup SubmoduleDirs(m.submodules[i], join(dir, m.submodules[i].name))
            : i \in 1..Len(m.submodules) }

Built == lastop = "build"

\* C4: in the module returned by build_sprite_modules_tree every subdirectory
\* with a .png file anywhere in its subtree is a submodule of its parent, and
\* every .png file under the root is a sprite path of exactly one module.
DeepSpritesKept ==
    Built =>
        /\ \A d \in Dirs \ {RootPath} :
              HasPngBelow(d) => d \in SubmoduleDirs(module, RootPath)
        /\ \A f \in PngFiles :
              Cardinality({n \in Nodes(module) : f \in Range(n.sprite_paths)}) = 1

\* C5: no submodule of the built tree, at any depth, stands for a directory
\* whose subtree has no .png file; the root module is returned regardless.
EmptyBranchesPruned ==
    Built =>
        /\ module.name = file_name(RootPath)
        /\ \A d \in SubmoduleDirs(module, RootPath) : d \in Dirs /\ HasPngBelow(d)

\* A root without .png files of its own, a kept submodule, and a pruned
\* branch two directories deep.
EmptyBranchesPrunedWitness ==
    /\ Built
    /\ module.sprite_paths = <<>>
    /\ module.submodules # <<>>
    /\ \E d \in Dirs \ {RootPath} :
          /\ ~HasPngBelow(d)
          /\ \E d2 \in Dirs : parent(d2) = d

\* C6: whatever the order in which read_dir lists the entries, the built
\* module equals the one built from the listing in sorted order.
BuildIsDeterministic ==
    Built => module = build_sprite_modules_tree(RootPath, SortedOrder, SortedOrder)

\* A built module with two submodules, listed in either order by read_dir.
BuildIsDeterministicWitness ==
    /\ Built
    /\ Len(module.submodules) = 2

Flattened == lastop \in {"flatten", "flatten2"}

\* A subsubmodule of m holds a sprite path
HasDeepPath(m) ==
    \E i \in 1..Len(m.submodules) :
        \E j \in 1..Len(m.submodules[i].submodules) :
            m.submodules[i].submodules[j].sprite_paths # <<>>

\* C7: m.flatten() has the name of m, no submodules, and exactly the sprite
\* paths of m and all its descendants.
FlattenCollapses ==
    Flattened =>
        /\ module.name = source.name
        /\ module.submodules = <<>>
        /\ Range(module.sprite_paths) = AllPaths(source)

\* A tree two levels deep, with paths at the root and at the bottom, flattened.
FlattenCollapsesWitness ==
    /\ lastop = "flatten"
    /\ source.sprite_paths # <<>>
    /\ HasDeepPath(source)

\* C8: m.flatten().flatten() = m.flatten(), and flatten returns a module
\* without submodules unchanged.
FlattenIdempotent ==
    /\ lastop = "flatten" => flatten(module) = module
    /\ lastop = "flatten2" => module = source
    /\ Flattened /\ source.submodules = <<>> => module = source

\* The second flatten of a tree that was two levels deep.
FlattenIdempotentWitness ==
    /\ lastop = "flatten"
    /\ HasDeepPath(source)
    /\ Len(module.sprite_paths) >= 2
    /\ ENABLED Flatten

\* The modules of a tree by position: the sequence of submodule indices
\* leading from the root to the module
RECURSIVE Addrs(_)
Addrs(m) ==
    {<<>>} \cup UNION { {<<i>> \o a : a \in Addrs(m.submodules[i])}
                        : i \in 1..Len(m.submodules) }

RECURSIVE At(_, _)
At(m, a) == IF a = <<>> THEN m ELSE At(m.submodules[a[1]], Tail(a))

\* The sprite paths of a tree by position: <<module address, index of the path>>
Occurrences(m) ==
    UNION { {<<a, k>> : k \in 1..Len(At(m, a).sprite_paths)} : a \in Addrs(m) }

PathOf(m, o) == At(m, o[1]).sprite_paths[o[2]]

\* Depth-first order: within a module by index; a module's own paths before
\* those of its descendants; an earlier sibling's subtree before a later one's.
Before(o, q) ==
    LET a == o[1]
        b == q[1]
    IN IF a = b THEN o[2] < q[2]
       ELSE IF IsProperPrefix(a, b) THEN TRUE
       ELSE IF IsProperPrefix(b, a) THEN FALSE
       ELSE LET i == CHOOSE i \in 1..Len(a) :
                        /\ a[i] # b[i]
                        /\ \A j \in 1..(i - 1) : a[j] = b[j]
            IN a[i] < b[i]

Rank(m, o) == 1 + Cardinality({q \in Occurrences(m) : Before(q, o)})

\* The collections of every module of the tree are in sorted order: paths
\* strictly ascending, submodules ascending by name
InSortedOrder(m) ==
    \A n \in Nodes(m) :
        /\ \A i \in 1..(Len(n.sprite_paths) - 1) :
              CmpPath(n.sprite_paths[i], n.sprite_paths[i + 1]) < 0
        /\ \A i \in 1..(Len(n.submodules) - 1) :
              n.submodules[i].name <= n.submodules[i + 1].name

\* C9: generate_cargo_build_instructions writes exactly one line per sprite
\* path of every module, depth-first: a module's own paths in sorted order
\* before any line of its submodules, the submodules in sorted order by name,
\* each completely before the next.
HintsDepthFirst ==
    lastop = "generate" =>
        /\ InSortedOrder(source)
        /\ Len(output) = Cardinality(Occurrences(source))
        /\ \A o \in Occurrences(source) :
              output[Rank(source, o)] = HintLine(PathOf(source, o))

\* Hints of a module with a path of its own and two submodules.
HintsDepthFirstWitness ==
    /\ lastop = "generate"
    /\ source.sprite_paths # <<>>
    /\ Len(source.submodules) >= 2
    /\ Len(output) >= 2

Failing(m, c) == {o \in Occurrences(m) : ~c[PathOf(m, o)].ok}

FirstFailing(m, c) ==
    CHOOSE f \in Failing(m, c) : \A g \in Failing(m, c) \ {f} : Before(f, g)

\* C10: parse returns a ParsedModule iff every sprite path of the tree
\* converts; otherwise it returns the error of the first failing path in
\* depth-first order, no ParsedModule, and no path after the failing one has
\* been read.
ParseAllOrNothing ==
    lastop = "parse" =>
        /\ parsed.ok <=> Failing(source, conv) = {}
        /\ \A o \in Occurrences(source) :
              Rank(source, o) <= Len(parsed.log) =>
                  parsed.log[Rank(source, o)] = PathOf(source, o)
        /\ parsed.ok => Len(parsed.log) = Cardinality(Occurrences(source))
        /\ Failing(source, conv) # {} =>
              LET f == FirstFailing(source, conv)
              IN /\ parsed.err = conv[PathOf(source, f)].err
                 /\ Len(parsed.log) = Rank(source, f)
                 /\ parsed.value = <<>>

\* Two paths fail with different errors, the first of them is not the first
\* path read and paths remain unread after it, in a tree with submodules.
ParseAllOrNothingWitness ==
    /\ lastop = "parse"
    /\ ~parsed.ok
    /\ source.submodules # <<>>
    /\ \E o, q \in Failing(source, conv) :
          conv[PathOf(source, o)].err # conv[PathOf(source, q)].err
    /\ Len(parsed.log) >= 2
    /\ Len(parsed.log) < Cardinality(Occurrences(source))

----------------------------------------------------------------------------
(* Claims about the name sanitizer *)

Sanitized == san_pc \in {"once", "twice"}

\* Character i of the input after upper-casing and the replacement of '-'
Mapped(i) ==
    LET c == san_input[i]
    IN IF c = Hyphen THEN Underscore
       ELSE IF 97 <= c /\ c <= 122 THEN c - 32
       ELSE c

IsIdentStart(c) == (65 <= c /\ c <= 90) \/ c = Underscore
IsIdentChar(c) == IsIdentStart(c) \/ (48 <= c /\ c <= 57)

\* The positions of the input that survive: from the first letter or
\* underscore on, the letters, digits and underscores
KeptPositions ==
    {i \in 1..Len(san_input) :
        /\ IsIdentChar(Mapped(i))
        /\ \E j \in 1..i : IsIdentStart(Mapped(j))}

\* C11: the result is the input with letters upper-cased and '-' turned into
\* '_', without the characters before the first letter or underscore and
\* without any later character that is no ASCII letter, digit or underscore,
\* in the original order; it holds only A-Z, 0-9 and '_' and does not start
\* with a digit.
SanitizerResult ==
    Sanitized =>
        /\ Len(san_output) = Cardinality(KeptPositions)
        /\ \A i \in KeptPositions :
              san_output[1 + Cardinality({j \in KeptPositions : j < i})] = Mapped(i)
        /\ \A k \in 1..Len(san_output) : IsIdentChar(san_output[k])
        /\ san_output # <<>> => IsIdentStart(san_output[1])

\* An input with a leading digit, a hyphen, a lower-case letter and a
\* non-ASCII letter, sanitized to two characters.
SanitizerResultWitness ==
    /\ san_pc = "once"
    /\ Len(san_input) = 4
    /\ san_input[1] = 49
    /\ Hyphen \in Range(san_input)
    /\ 248 \in Range(san_input)
    /\ 97 \in Range(san_input)
    /\ Len(san_output) = 2

\* C18: sanitize_variable_name(sanitize_variable_name(s)) =
\* sanitize_variable_name(s) for every string s.
SanitizerIdempotent ==
    san_pc = "twice" => san_again = san_output

\* A string that the sanitizer changes, sanitized twice.
SanitizerIdempotentWitness ==
    /\ san_pc = "twice"
    /\ san_output # san_input
    /\ san_output # <<>>

----------------------------------------------------------------------------
(* Claims about the record of a conversion and the pixel writes *)

\* The colours of the palette of the image
PaletteColours == Range(png_palette)

\* The packed data of bit depth b after the first n pixels, in row-major
\* order: what encode_1bpp_image (b = 1) or encode_2bpp_image (b = 2) returns
\* when n is the number of pixels.
RECURSIVE EncodingOf(_, _)
EncodingOf(b, n) ==
    IF n = 0 THEN <<>>
    ELSE LET e == IF b = 1 THEN Encoder1bpp((n - 1) % width, (n - 1) \div width)
                  ELSE Encoder2bpp((n - 1) % width, (n - 1) \div width)
         IN WritePixel(PushIfShort(EncodingOf(b, n - 1), e.idx), e,
                       mapping[color_to_value(PixelAt(n - 1))])

\* C12: whenever convert_png_to_rust_variables succeeds, the record has flag
\* OneBitPerPixel (value 0) and the 1bpp encoding exactly when the palette has
\* 2 colours, flag TwoBitsPerPixel (value 1) and the 2bpp encoding exactly when
\* it has 4 colours; its width and height are those of the image and its name
\* is the name passed in.
BitDepthFollowsPalette ==
    Encoded =>
        /\ result.flags \in {"OneBitPerPixel", "TwoBitsPerPixel"}
        /\ Cardinality(PaletteColours) = 2 <=>
              /\ result.flags = "OneBitPerPixel"
              /\ FlagsValue(result.flags) = 0
              /\ result.data = EncodingOf(1, width * height)
        /\ Cardinality(PaletteColours) = 4 <=>
              /\ result.flags = "TwoBitsPerPixel"
              /\ FlagsValue(result.flags) = 1
              /\ result.data = EncodingOf(2, width * height)
        /\ result.width = width
        /\ result.height = height
        /\ result.name = sprite_name

\* A successful conversion of an image of several rows with a 4-colour palette
\* under the name "B-".
BitDepthFollowsPaletteWitness ==
    /\ Encoded
    /\ Cardinality(PaletteColours) = 4
    /\ result.flags = "TwoBitsPerPixel"
    /\ height > 1
    /\ width > 1
    /\ result.name = <<66, 45>>

\* C17: for every accepted palette and every pixel, the palette index written
\* by encode_image is below 2 for 1bpp and below 4 for 2bpp, and writing the
\* pixel changes only the bits of its byte that its mask selects: every other
\* bit of that byte and every other byte keep their value.
WritesStayInsideMask ==
    [][(pc = "encoding" /\ pos' = pos + 1) =>
          LET e      == Encoder(bits, pos % width, pos \div width)
              before == PushIfShort(bytes, e.idx)
          IN /\ looked'[pos'] < Pow2(bits)
             /\ Len(bytes') = Len(before)
             /\ \A j \in 1..Len(before) : \A k \in 0..7 :
                   (j # e.idx + 1 \/ Bit(e.mask, k) = 0)
                       => Bit(bytes'[j], k) = Bit(before[j], k)]_vars

\* The frame part of C17 alone: a pixel write leaves the bits outside its mask
\* as they were.
WritesChangeOnlyMaskedBits ==
    [][(pc = "encoding" /\ pos' = pos + 1) =>
          LET e      == Encoder(bits, pos % width, pos \div width)
              before == PushIfShort(bytes, e.idx)
          IN \A j \in 1..Len(before) : \A k \in 0..7 :
                (j # e.idx + 1 \/ Bit(e.mask, k) = 0)
                    => Bit(bytes'[j], k) = Bit(before[j], k)]_vars

----------------------------------------------------------------------------
(* Claims about the scan, the order of paths, parse and the rendered text *)

\* The modules of a tree, each with the directory it stands for when the
\* root stands for dir
RECURSIVE NodeDirs(_, _)
NodeDirs(m, dir) ==
    {<<m, dir>>} \cup UNION { NodeDirs(m.submodules[i], join(dir, m.submodules[i].name))
                              : i \in 1..Len(m.submodules) }

\* The entries directly in directory d
Children(d) == {e.path : e \in {c \in fs : parent(c.path) = d}}

\* C13: a direct child of a scanned directory is a sprite path of that
\* directory's module iff it is a regular file whose extension is exactly
\* "png"; a child directory is scanned whatever its name, so its own .png
\* files make it a submodule, and a directory is never a sprite path.
SpriteSelection ==
    Built =>
        \A nd \in NodeDirs(module, RootPath) :
            LET n == nd[1]
                d == nd[2]
            IN /\ d \in Dirs
               /\ Range(n.sprite_paths) \subseteq Children(d)
               /\ \A p \in Children(d) :
                     p \in Range(n.sprite_paths)
                         <=> (is_file(p) /\ Names[file_name(p)].ext = "png")
               /\ \A p \in Range(n.sprite_paths) : ~is_dir(p)
               /\ \A c \in Children(d) :
                     (is_dir(c) /\ \E f \in Children(c) :
                                       is_file(f) /\ Names[file_name(f)].ext = "png")
                         => \E i \in 1..Len(n.submodules) :
                                n.submodules[i].name = file_name(c)

\* A scanned directory holding a file with extension "PNG", a file without
\* extension and a directory named like a .png file with a sprite in it.
SpriteSelectionWitness ==
    /\ Built
    /\ \E p, q, c \in Children(RootPath) :
          /\ is_file(p) /\ Names[file_name(p)].ext = "PNG"
          /\ is_file(q) /\ Names[file_name(q)].ext = ""
          /\ is_dir(c) /\ Names[file_name(c)].ext = "png"
          /\ \E i \in 1..Len(module.submodules) :
                /\ module.submodules[i].name = file_name(c)
                /\ module.submodules[i].sprite_paths # <<>>

\* C15 as stated: iterating the sprite paths of m.flatten() yields the paths
\* of m depth-first: the root's own paths first, then the flattened paths of
\* each submodule in the submodules' sorted order, recursively.
FlattenOrderDepthFirst ==
    lastop = "flatten" =>
        /\ Len(module.sprite_paths) = Cardinality(Occurrences(source))
        /\ \A o \in Occurrences(source) :
              module.sprite_paths[Rank(source, o)] = PathOf(source, o)

\* C15, amended: iterating the sprite paths of m.flatten() yields every sprite
\* path of m and its descendants exactly once, in ascending order of the paths
\* compared component by component, wherever in the tree the path came from.
FlattenOrderByPath ==
    lastop = "flatten" =>
        /\ Range(module.sprite_paths) = AllPaths(source)
        /\ \A i \in 1..(Len(module.sprite_paths) - 1) :
              CmpPath(module.sprite_paths[i], module.sprite_paths[i + 1]) < 0

\* A flattened module in which a path of a submodule comes before a path the
\* root held itself.
FlattenOrderByPathWitness ==
    /\ lastop = "flatten"
    /\ \E i, j \in 1..Len(module.sprite_paths) :
          /\ i < j
          /\ module.sprite_paths[j] \in Range(source.sprite_paths)
          /\ module.sprite_paths[i] \notin Range(source.sprite_paths)

\* The parsed tree p has the shape of the module tree m: the same modules at
\* the same positions, with the same names, as many records as sprite paths
\* and as many parsed submodules as submodules
SameStructure(m, p) ==
    /\ Addrs(p) = Addrs(m)
    /\ \A a \in Addrs(m) :
          /\ At(p, a).name = At(m, a).name
          /\ Len(At(p, a).variables) = Len(At(m, a).sprite_paths)
          /\ Len(At(p, a).submodules) = Len(At(m, a).submodules)

\* C16: when parse succeeds, the ParsedModule has the name of the source
\* module, exactly one record per sprite path (also when two paths share a
\* file stem and content) and exactly one parsed submodule per submodule,
\* recursively at every depth.
ParsePreservesStructure ==
    (lastop = "parse" /\ parsed.ok) => SameStructure(source, parsed.value)

\* C16 on the modules whose sprite paths all have the extension "png", as the
\* modules made by build_sprite_modules_tree and flatten have.
ParsePreservesStructureOfPngs ==
    (lastop = "parse" /\ parsed.ok /\ \A f \in AllPaths(source) : extension(f) = "png")
        => SameStructure(source, parsed.value)

\* Number of lines of the block of module n: the opening line, five lines
\* per record, the blocks of the submodules, the closing line and a blank line
RECURSIVE BlockSize(_)
BlockSize(n) ==
    LET below[i \in 0..Len(n.submodules)] ==
            IF i = 0 THEN 0 ELSE below[i - 1] + BlockSize(n.submodules[i])
    IN 1 + 5 * Len(n.variables) + below[Len(n.submodules)] + 2

\* Line at which the block of the module at address a starts in the text of m
RECURSIVE BlockStart(_, _)
BlockStart(m, a) ==
    IF a = <<>> THEN 1
    ELSE LET up == SubSeq(a, 1, Len(a) - 1)
             n  == At(m, up)
             before[i \in 0..(a[Len(a)] - 1)] ==
                 IF i = 0 THEN 0 ELSE before[i - 1] + BlockSize(n.submodules[i])
         IN BlockStart(m, up) + 1 + 5 * Len(n.variables) + before[a[Len(a)] - 1]

\* The sort key of a record: name, width, height, flag, data
RecordKey(v) == <<v.name, v.width, v.height, FlagsValue(v.flags)>> \o v.data

Displayed == lastop = "display"

\* C14: the text of a ParsedModule holds, for each module at depth d, the
\* opening line indented 4*d, then each record in sorted order (name, width,
\* height, flag, data), each of its four lines behind 4*(d+1) spaces and
\* "pub " and followed by one blank line, then the block of each submodule in
\* order of name at depth d+1, then the closing line indented 4*d and a blank
\* line; there is one opening and one closing line per module of the tree.
RenderedNesting ==
    Displayed =>
        /\ Len(rendered) = BlockSize(parsed.value)
        /\ \A a \in Addrs(parsed.value) :
              LET n == At(parsed.value, a)
                  d == Len(a)
                  s == BlockStart(parsed.value, a)
              IN /\ rendered[s] = OpeningLine(d, n.name)
                 /\ rendered[s].indent = 4 * d
                 /\ \A k \in 1..Len(n.variables) :
                       LET t    == s + 1 + 5 * (k - 1)
                           text == RustVariablesToString(n.variables[k])
                       IN /\ \A l \in 1..4 :
                                rendered[t + l - 1] =
                                    [indent |-> 4 * (d + 1), pub |-> "pub ", line |-> text[l]]
                          /\ rendered[t + 4] = BlankLine
                 /\ \A k \in 1..(Len(n.variables) - 1) :
                       CmpBytes(RecordKey(n.variables[k]), RecordKey(n.variables[k + 1]), 1) < 0
                 /\ \A i \in 1..(Len(n.submodules) - 1) :
                       n.submodules[i].name < n.submodules[i + 1].name
                 /\ rendered[s + BlockSize(n) - 2] = ClosingLine(d)
                 /\ rendered[s + BlockSize(n) - 2].indent = 4 * d
                 /\ rendered[s + BlockSize(n) - 1] = BlankLine
        /\ Cardinality({k \in 1..Len(rendered) : rendered[k].line.kind = "pub mod {} {"})
               = Cardinality(Addrs(parsed.value))
        /\ Cardinality({k \in 1..Len(rendered) : rendered[k].line.kind = "}"})
               = Cardinality(Addrs(parsed.value))

\* The text of a module with two records of the same name and a submodule
\* with a record of its own.
RenderedNestingWitness ==
    /\ Displayed
    /\ Len(parsed.value.variables) >= 2
    /\ parsed.value.variables[1].name = parsed.value.variables[2].name
    /\ \E i \in 1..Len(parsed.value.submodules) :
          parsed.value.submodules[i].variables # <<>>

====
